---- MODULE Spec2Model ----
(***************************************************************************)
(* Model of the activities and webhooks resource services of the          *)
(* pipedrive client (src/unnamed/part_000, src/pipedrive/webhooks.go).    *)
(*                                                                         *)
(* Every operation is "build a request with client.NewRequest, hand it to *)
(* client.Do, return what Do gave".  A call is modelled in three steps,   *)
(* split at the one network round trip: the operation starts (builds the  *)
(* request and calls Do), the network produces a reply (or fails), and Do *)
(* returns into the tail of the operation.                                *)
(*                                                                         *)
(* Strings are sequences of one-character strings, so that formatting an  *)
(* integer or joining a list is computed and not assumed.  A Go nil is    *)
(* the empty sequence and a non-nil pointer to x is <<x>>.                *)
(***************************************************************************)
EXTENDS Integers, Sequences, FiniteSets, TLC

VARIABLES
    client,   \* the client configuration the services share (s.client)
    pc,       \* per call: "idle", "inflight", "replied", "returned", "panicked"
    op,       \* per call: the operation that was called
    args,     \* per call: the arguments it was called with
    req,      \* per call: the local req (what NewRequest returned)
    berr,     \* per call: the error NewRequest returned
    nDo,      \* per call: how many times client.Do was invoked
    wire,     \* per call: the reply travelling back on that call's connection
    doOut,    \* per call: the locals resp, err, record after client.Do
    ret       \* per call: what the operation returned to its caller

vars == <<client, pc, op, args, req, berr, nDo, wire, doOut, ret>>

----------------------------------------------------------------------------
(* Bounds of the model *)

NumCalls == 2      \* concurrent calls in SpecConc
MaxIds == 2        \* longest id list given to DeleteMultiple
MaxAttempts == 2   \* cap on nDo (the code never reaches it)

Calls == 1..NumCalls
\* the one caller of the sequential specification
Caller == CHOOSE c \in Calls : \A d \in Calls : c <= d

Nil == <<>>
Some(x) == <<x>>

(* Sample inputs *)
Ids == {-7, 0, 12}
Limits == {-1, 0, 50}
Cursors == {<<>>, <<"a", "b">>}
ConcIds == {12}
ConcLimits == {0, 50}
ConcCursors == {<<>>}
ConcIdLists == {<<12, 0>>}

RECURSIVE SeqsUpTo(_, _)
\* the sequences over S of length at most n
SeqsUpTo(S, n) ==
    IF n = 0 THEN {<<>>}
    ELSE LET shorter == SeqsUpTo(S, n - 1) IN
         shorter \cup {Append(q, x) : q \in shorter, x \in S}

IdLists == SeqsUpTo(Ids, MaxIds)

----------------------------------------------------------------------------
(* Strings and formatting *)

Digit(d) ==
    CASE d = 0 -> "0" [] d = 1 -> "1" [] d = 2 -> "2" [] d = 3 -> "3"
      [] d = 4 -> "4" [] d = 5 -> "5" [] d = 6 -> "6" [] d = 7 -> "7"
      [] d = 8 -> "8" [] d = 9 -> "9"

RECURSIVE Itoa(_)
\* fmt's %v of an int: decimal, "-" before a negative number
Itoa(n) ==
    IF n < 0 THEN <<"-">> \o Itoa(-n)
    ELSE IF n < 10 THEN <<Digit(n)>>
    ELSE Itoa(n \div 10) \o <<Digit(n % 10)>>

RECURSIVE arrayToString(_, _)
\* the elements in decimal, in order, with delim between two neighbours
arrayToString(a, delim) ==
    IF Len(a) = 0 THEN <<>>
    ELSE IF Len(a) = 1 THEN Itoa(a[1])
    ELSE Itoa(a[1]) \o delim \o arrayToString(Tail(a), delim)

MethodGet == "GET"
MethodPost == "POST"
MethodPut == "PUT"
MethodDelete == "DELETE"

ActivitiesPath == <<"/", "a", "c", "t", "i", "v", "i", "t", "i", "e", "s">>
SummaryPath == ActivitiesPath \o <<"/", "s", "u", "m", "m", "a", "r", "y">>
CollectionPath ==
    ActivitiesPath \o <<"/", "c", "o", "l", "l", "e", "c", "t", "i", "o", "n">>
WebhooksPath == <<"/", "w", "e", "b", "h", "o", "o", "k", "s">>

\* fmt.Sprintf("/activities/%v", id)
ActivityURI(id) == ActivitiesPath \o <<"/">> \o Itoa(id)
\* fmt.Sprintf("/webhooks/%v", id)
WebhookURI(id) == WebhooksPath \o <<"/">> \o Itoa(id)

----------------------------------------------------------------------------
(* Argument values *)

\* PaginationParameters, passed by value
Pagination(limit, cursor) == [type |-> "pagination", limit |-> limit, cursor |-> cursor]

\* &DeleteMultipleOptions{Ids: ...}
DeleteMultipleOptions(ids) == [type |-> "deleteMultiple", ids |-> ids]

\* *ActivitiesCreateOptions: nil, or a struct whose Participants (an
\* interface{}) holds a value the encoder accepts or one it rejects
ActivityOptions ==
    { Nil,
      Some([type |-> "activity", subject |-> <<"c", "a", "l", "l">>, encodable |-> TRUE]),
      Some([type |-> "activity", subject |-> <<"c", "a", "l", "l">>, encodable |-> FALSE]) }

\* *WebhooksCreateOptions
WebhookOptions ==
    { Nil,
      Some([type |-> "webhook", subscriptionUrl |-> <<"u">>, encodable |-> TRUE]) }

ConcActivityOptions == {x \in ActivityOptions : x # Nil /\ x[1].encodable}
ConcWebhookOptions == {x \in WebhookOptions : x # Nil}

Encodable(x) == x = Nil \/ ("encodable" \in DOMAIN x[1] => x[1].encodable)

----------------------------------------------------------------------------
(* The shared plumbing: client.NewRequest and client.Do *)

BuildError(why) == Some([kind |-> "build", why |-> why])

\* NewRequest(method, path, opts, body): opts (nil or a pointer to an options
\* struct) becomes the query string, body (nil or a pointer) the JSON body.
\* It fails when the base URL is invalid or when encoding fails.
NewRequest(cl, method, path, opts, body) ==
    IF ~cl.baseURLValid
    THEN [req |-> Nil, err |-> BuildError("base url")]
    ELSE IF ~Encodable(opts) \/ ~Encodable(body)
    THEN [req |-> Nil, err |-> BuildError("encoding")]
    ELSE [req |-> Some([method |-> method, path |-> path, query |-> opts,
                        body |-> body, auth |-> cl.token]),
          err |-> Nil]

Success(status) == 200 <= status /\ status < 300

\* Do(req, dest) once the network has produced reply: (resp, err) and what the
\* decoder left in *dest.
Do(reply, hasDest) ==
    IF reply.kind = "transport"
    THEN [resp |-> Nil, err |-> Some([kind |-> "transport"]), record |-> Nil]
    ELSE LET resp == Some([status |-> reply.status, conn |-> reply.conn]) IN
         IF ~Success(reply.status)
         THEN [resp |-> resp,
               err |-> Some([kind |-> "status", status |-> reply.status,
                             body |-> reply.data]),
               record |-> Nil]
         ELSE IF ~hasDest
         THEN [resp |-> resp, err |-> Nil, record |-> Nil]
         ELSE IF ~reply.wellFormed
         THEN [resp |-> resp, err |-> Some([kind |-> "decode"]),
               record |-> IF reply.partial THEN Some([data |-> reply.data]) ELSE Nil]
         ELSE [resp |-> resp, err |-> Nil, record |-> Some([data |-> reply.data])]

----------------------------------------------------------------------------
(* The request each operation builds *)

SummaryRequest(cl) == NewRequest(cl, MethodGet, SummaryPath, Nil, Nil)

\* a List that attaches &opts whatever they hold
ListRequestAlwaysOpts(cl, opts) ==
    NewRequest(cl, MethodGet, CollectionPath, Some(opts), Nil)

ListRequest(cl, opts) ==
    IF opts.limit > 0 \/ Len(opts.cursor) # 0
    THEN NewRequest(cl, MethodGet, CollectionPath, Some(opts), Nil)
    ELSE NewRequest(cl, MethodGet, CollectionPath, Nil, Nil)

GetByIDRequest(cl, id) == NewRequest(cl, MethodGet, ActivityURI(id), Nil, Nil)

CreateRequest(cl, opt) == NewRequest(cl, MethodPost, ActivitiesPath, Nil, opt)

UpdateRequest(cl, id, opt) == NewRequest(cl, MethodPut, ActivityURI(id), opt, Nil)

\* a DeleteMultiple that joins with the blank fmt puts between elements
DeleteMultipleRequestBlank(cl, ids) ==
    NewRequest(cl, MethodDelete, ActivitiesPath,
               Some(DeleteMultipleOptions(arrayToString(ids, <<" ">>))), Nil)

DeleteMultipleRequest(cl, ids) ==
    NewRequest(cl, MethodDelete, ActivitiesPath,
               Some(DeleteMultipleOptions(arrayToString(ids, <<",">>))), Nil)

DeleteRequest(cl, id) == NewRequest(cl, MethodDelete, ActivityURI(id), Nil, Nil)

WebhooksListRequest(cl) == NewRequest(cl, MethodGet, WebhooksPath, Nil, Nil)

WebhooksCreateRequest(cl, opt) == NewRequest(cl, MethodPost, WebhooksPath, Nil, opt)

\* a webhooks Delete pasted from the activities Delete with its path kept
WebhooksDeleteRequestPasted(cl, id) ==
    NewRequest(cl, MethodDelete, ActivityURI(id), Nil, Nil)

WebhooksDeleteRequest(cl, id) == NewRequest(cl, MethodDelete, WebhookURI(id), Nil, Nil)

----------------------------------------------------------------------------
(* The two shapes an operation has around client.Do *)

DeleteOps == {"ActivitiesDeleteMultiple", "ActivitiesDelete", "WebhooksDelete"}

\* whether the operation hands Do a destination (&record) or nil
HasDest(o) == o \notin DeleteOps

NoArgs == [id |-> Nil, opts |-> Nil, opt |-> Nil, ids |-> Nil]

NoResult == [value |-> Nil, resp |-> Nil, err |-> Nil]

\* req, err := NewRequest(...); if err != nil { return nil, nil, err };
\* ... := s.client.Do(req, ...)
Begin(c, o, a, b) ==
    /\ pc[c] = "idle"
    /\ op' = [op EXCEPT ![c] = o]
    /\ args' = [args EXCEPT ![c] = a]
    /\ req' = [req EXCEPT ![c] = b.req]
    /\ berr' = [berr EXCEPT ![c] = b.err]
    /\ IF b.err # Nil
       THEN /\ pc' = [pc EXCEPT ![c] = "returned"]
            /\ ret' = [ret EXCEPT ![c] = [value |-> Nil, resp |-> Nil, err |-> b.err]]
            /\ nDo' = nDo
       ELSE /\ pc' = [pc EXCEPT ![c] = "inflight"]
            /\ nDo' = [nDo EXCEPT ![c] = @ + 1]
            /\ ret' = ret
    /\ UNCHANGED <<client, wire, doOut>>

\* req, err = NewRequest(...); resp, err := s.client.Do(ctx, req, &record):
\* the error of NewRequest is not looked at and Do is called with whatever
\* req is, nil included
BeginUnchecked(c, o, a, b) ==
    /\ pc[c] = "idle"
    /\ op' = [op EXCEPT ![c] = o]
    /\ args' = [args EXCEPT ![c] = a]
    /\ req' = [req EXCEPT ![c] = b.req]
    /\ berr' = [berr EXCEPT ![c] = b.err]
    /\ pc' = [pc EXCEPT ![c] = "inflight"]
    /\ nDo' = [nDo EXCEPT ![c] = @ + 1]
    /\ UNCHANGED <<client, wire, doOut, ret>>

\* a tail that returns record whether or not Do failed
ReturnDecodedKeepsRecord(d) == [value |-> d.record, resp |-> d.resp, err |-> d.err]

\* a tail that returns the still-nil value of a shadowed record
ReturnDecodedShadowed(d) == [value |-> Nil, resp |-> d.resp, err |-> d.err]

\* if err != nil { return nil, resp, err }; return record, resp, nil
ReturnDecoded(d) ==
    IF d.err # Nil
    THEN [value |-> Nil, resp |-> d.resp, err |-> d.err]
    ELSE [value |-> d.record, resp |-> d.resp, err |-> Nil]

\* a delete written like the build-failure branch: no response beside an error
ReturnPlainDropsResp(d) ==
    IF d.err # Nil
    THEN [value |-> Nil, resp |-> Nil, err |-> d.err]
    ELSE [value |-> Nil, resp |-> d.resp, err |-> Nil]

\* return s.client.Do(ctx, req, nil)
ReturnPlain(d) == [value |-> Nil, resp |-> d.resp, err |-> d.err]

Return(o, d) == IF HasDest(o) THEN ReturnDecoded(d) ELSE ReturnPlain(d)

----------------------------------------------------------------------------
(* The operations *)

ActivitiesSummary(c) ==
    Begin(c, "ActivitiesSummary", NoArgs, SummaryRequest(client))

ActivitiesList(c, opts) ==
    BeginUnchecked(c, "ActivitiesList", [NoArgs EXCEPT !.opts = Some(opts)],
                   ListRequest(client, opts))

ActivitiesGetByID(c, id) ==
    Begin(c, "ActivitiesGetByID", [NoArgs EXCEPT !.id = Some(id)],
          GetByIDRequest(client, id))

ActivitiesCreate(c, opt) ==
    Begin(c, "ActivitiesCreate", [NoArgs EXCEPT !.opt = opt],
          CreateRequest(client, opt))

ActivitiesUpdate(c, id, opt) ==
    Begin(c, "ActivitiesUpdate", [NoArgs EXCEPT !.id = Some(id), !.opt = opt],
          UpdateRequest(client, id, opt))

ActivitiesDeleteMultiple(c, ids) ==
    Begin(c, "ActivitiesDeleteMultiple", [NoArgs EXCEPT !.ids = Some(ids)],
          DeleteMultipleRequest(client, ids))

ActivitiesDelete(c, id) ==
    Begin(c, "ActivitiesDelete", [NoArgs EXCEPT !.id = Some(id)],
          DeleteRequest(client, id))

WebhooksList(c) ==
    Begin(c, "WebhooksList", NoArgs, WebhooksListRequest(client))

WebhooksCreate(c, opt) ==
    Begin(c, "WebhooksCreate", [NoArgs EXCEPT !.opt = opt],
          WebhooksCreateRequest(client, opt))

WebhooksDelete(c, id) ==
    Begin(c, "WebhooksDelete", [NoArgs EXCEPT !.id = Some(id)],
          WebhooksDeleteRequest(client, id))

----------------------------------------------------------------------------
(* The round trip *)

HttpReply(c, status, wellFormed, partial, data) ==
    [kind |-> "http", status |-> status, wellFormed |-> wellFormed,
     partial |-> partial, data |-> data, conn |-> c]

TransportReply(c) ==
    [kind |-> "transport", status |-> 0, wellFormed |-> FALSE,
     partial |-> FALSE, data |-> <<>>, conn |-> c]

\* what the server may put in the data key of its answer to call c
DataFor(c) == {<<"d">> \o Itoa(c), <<"e">> \o Itoa(c)}

ConcDataFor(c) == <<"d">> \o Itoa(c)

Statuses == {200, 201, 404, 500}
ConcStatuses == {200, 404}

\* the server answers the request of call c
ServerResponds(c, status, wellFormed, partial, data) ==
    /\ pc[c] = "inflight"
    /\ req[c] # Nil
    /\ wire' = [wire EXCEPT ![c] = Some(HttpReply(c, status, wellFormed, partial, data))]
    /\ pc' = [pc EXCEPT ![c] = "replied"]
    /\ UNCHANGED <<client, op, args, req, berr, nDo, doOut, ret>>

\* the round trip of call c fails below HTTP
TransportFails(c) ==
    /\ pc[c] = "inflight"
    /\ req[c] # Nil
    /\ wire' = [wire EXCEPT ![c] = Some(TransportReply(c))]
    /\ pc' = [pc EXCEPT ![c] = "replied"]
    /\ UNCHANGED <<client, op, args, req, berr, nDo, doOut, ret>>

\* an operation that calls Do again after a failure
DoReturnsRetry(c) ==
    /\ pc[c] = "replied"
    /\ LET d == Do(wire[c][1], HasDest(op[c])) IN
         IF d.err # Nil /\ nDo[c] < MaxAttempts
         THEN /\ pc' = [pc EXCEPT ![c] = "inflight"]
              /\ nDo' = [nDo EXCEPT ![c] = @ + 1]
              /\ wire' = [wire EXCEPT ![c] = Nil]
              /\ UNCHANGED <<doOut, ret>>
         ELSE /\ doOut' = [doOut EXCEPT ![c] = Some(d)]
              /\ ret' = [ret EXCEPT ![c] = Return(op[c], d)]
              /\ pc' = [pc EXCEPT ![c] = "returned"]
              /\ UNCHANGED <<nDo, wire>>
    /\ UNCHANGED <<client, op, args, req, berr>>

\* a call that is handed whichever reply has arrived, its own or not
DoReturnsAnyReply(c) ==
    /\ pc[c] = "replied"
    /\ \E other \in Calls :
         /\ wire[other] # Nil
         /\ LET d == Do(wire[other][1], HasDest(op[c])) IN
              /\ doOut' = [doOut EXCEPT ![c] = Some(d)]
              /\ ret' = [ret EXCEPT ![c] = Return(op[c], d)]
    /\ pc' = [pc EXCEPT ![c] = "returned"]
    /\ UNCHANGED <<client, op, args, req, berr, nDo, wire>>

\* client.Do returns into the operation, which returns to its caller
DoReturns(c) ==
    /\ pc[c] = "replied"
    /\ LET d == Do(wire[c][1], HasDest(op[c])) IN
         /\ doOut' = [doOut EXCEPT ![c] = Some(d)]
         /\ ret' = [ret EXCEPT ![c] = Return(op[c], d)]
    /\ pc' = [pc EXCEPT ![c] = "returned"]
    /\ UNCHANGED <<client, op, args, req, berr, nDo, wire>>

\* client.Do was handed a nil request: it dereferences it and panics, or it
\* refuses it with an error
DoNilRequest(c) ==
    /\ pc[c] = "inflight"
    /\ req[c] = Nil
    /\ \/ /\ pc' = [pc EXCEPT ![c] = "panicked"]
          /\ UNCHANGED <<doOut, ret>>
       \/ LET d == [resp |-> Nil, err |-> Some([kind |-> "nil request"]),
                    record |-> Nil] IN
            /\ doOut' = [doOut EXCEPT ![c] = Some(d)]
            /\ ret' = [ret EXCEPT ![c] = Return(op[c], d)]
            /\ pc' = [pc EXCEPT ![c] = "returned"]
    /\ UNCHANGED <<client, op, args, req, berr, nDo, wire>>

----------------------------------------------------------------------------
(* Specifications *)

Clients == [baseURLValid : BOOLEAN, token : {<<"t", "o", "k">>}]

Init ==
    /\ client \in Clients
    /\ pc = [c \in Calls |-> "idle"]
    /\ op = [c \in Calls |-> "none"]
    /\ args = [c \in Calls |-> NoArgs]
    /\ req = [c \in Calls |-> Nil]
    /\ berr = [c \in Calls |-> Nil]
    /\ nDo = [c \in Calls |-> 0]
    /\ wire = [c \in Calls |-> Nil]
    /\ doOut = [c \in Calls |-> Nil]
    /\ ret = [c \in Calls |-> NoResult]

\* one caller, one call at a time
Next ==
    \/ ActivitiesSummary(Caller)
    \/ \E l \in Limits, k \in Cursors : ActivitiesList(Caller, Pagination(l, k))
    \/ \E id \in Ids : ActivitiesGetByID(Caller, id)
    \/ \E opt \in ActivityOptions : ActivitiesCreate(Caller, opt)
    \/ \E id \in Ids, opt \in ActivityOptions : ActivitiesUpdate(Caller, id, opt)
    \/ \E ids \in IdLists : ActivitiesDeleteMultiple(Caller, ids)
    \/ \E id \in Ids : ActivitiesDelete(Caller, id)
    \/ WebhooksList(Caller)
    \/ \E opt \in WebhookOptions : WebhooksCreate(Caller, opt)
    \/ \E id \in Ids : WebhooksDelete(Caller, id)
    \/ \E s \in Statuses, w \in BOOLEAN, p \in BOOLEAN, d \in DataFor(Caller) :
          /\ w => ~p
          /\ ServerResponds(Caller, s, w, p, d)
    \/ TransportFails(Caller)
    \/ DoReturns(Caller)
    \/ DoNilRequest(Caller)

Spec == Init /\ [][Next]_vars

\* several callers use the same client at once
NextConc ==
    \E c \in Calls :
        \/ ActivitiesSummary(c)
        \/ \E l \in ConcLimits, k \in ConcCursors : ActivitiesList(c, Pagination(l, k))
        \/ \E id \in ConcIds : ActivitiesGetByID(c, id)
        \/ \E opt \in ConcActivityOptions : ActivitiesCreate(c, opt)
        \/ \E id \in ConcIds, opt \in ConcActivityOptions : ActivitiesUpdate(c, id, opt)
        \/ \E ids \in ConcIdLists : ActivitiesDeleteMultiple(c, ids)
        \/ \E id \in ConcIds : ActivitiesDelete(c, id)
        \/ WebhooksList(c)
        \/ \E opt \in ConcWebhookOptions : WebhooksCreate(c, opt)
        \/ \E id \in ConcIds : WebhooksDelete(c, id)
        \/ \E s \in ConcStatuses : ServerResponds(c, s, TRUE, FALSE, ConcDataFor(c))
        \/ TransportFails(c)
        \/ DoReturns(c)
        \/ DoNilRequest(c)

SpecConc == Init /\ [][NextConc]_vars

----------------------------------------------------------------------------
(* Reading strings back, for stating the properties *)

DigitChars == {"0", "1", "2", "3", "4", "5", "6", "7", "8", "9"}

DigitValue(ch) ==
    CASE ch = "0" -> 0 [] ch = "1" -> 1 [] ch = "2" -> 2 [] ch = "3" -> 3
      [] ch = "4" -> 4 [] ch = "5" -> 5 [] ch = "6" -> 6 [] ch = "7" -> 7
      [] ch = "8" -> 8 [] ch = "9" -> 9

\* s is a decimal numeral: an optional "-", then digits, no leading zero
IsDecimal(s) ==
    LET digits == IF Len(s) > 0 /\ s[1] = "-" THEN Tail(s) ELSE s IN
      /\ Len(digits) > 0
      /\ \A i \in 1..Len(digits) : digits[i] \in DigitChars
      /\ Len(digits) > 1 => digits[1] # "0"

RECURSIVE ParseDigits(_)
ParseDigits(s) ==
    IF Len(s) = 0 THEN 0
    ELSE 10 * ParseDigits(SubSeq(s, 1, Len(s) - 1)) + DigitValue(s[Len(s)])

ParseInt(s) == IF s[1] = "-" THEN 0 - ParseDigits(Tail(s)) ELSE ParseDigits(s)

RECURSIVE Split(_, _)
\* the fields of s between occurrences of the character sep
Split(s, sep) ==
    IF \A i \in 1..Len(s) : s[i] # sep THEN <<s>>
    ELSE LET k == CHOOSE i \in 1..Len(s) :
                     s[i] = sep /\ \A j \in 1..(i - 1) : s[j] # sep IN
         <<SubSeq(s, 1, k - 1)>> \o Split(SubSeq(s, k + 1, Len(s)), sep)

\* path is prefix, "/", and the decimal numeral of id
IsEntityPath(path, prefix, id) ==
    /\ Len(path) > Len(prefix) + 1
    /\ SubSeq(path, 1, Len(prefix)) = prefix
    /\ path[Len(prefix) + 1] = "/"
    /\ LET rest == SubSeq(path, Len(prefix) + 2, Len(path)) IN
         IsDecimal(rest) /\ ParseInt(rest) = id

DecodingOps ==
    {"ActivitiesSummary", "ActivitiesList", "ActivitiesGetByID", "ActivitiesCreate",
     "ActivitiesUpdate", "WebhooksList", "WebhooksCreate"}

Built(c) == pc[c] # "idle" /\ req[c] # Nil

----------------------------------------------------------------------------
(* The claims *)

\* C1: an ActivitiesService.List request carries the pagination parameters if
\* and only if limit > 0 or the cursor is non-empty, and carries no query at
\* all otherwise; either way it is a GET of the same list endpoint.
C1_ListPagination ==
    \A c \in Calls :
        (op[c] = "ActivitiesList" /\ Built(c)) =>
            LET o == args[c].opts[1]
                r == req[c][1] IN
              /\ r.method = "GET"
              /\ r.path = <<"/", "a", "c", "t", "i", "v", "i", "t", "i", "e", "s",
                            "/", "c", "o", "l", "l", "e", "c", "t", "i", "o", "n">>
              /\ r.body = Nil
              /\ (o.limit > 0 \/ o.cursor # <<>>) <=> (r.query # Nil)
              /\ r.query # Nil =>
                    /\ r.query[1].type = "pagination"
                    /\ r.query[1].limit = o.limit
                    /\ r.query[1].cursor = o.cursor

C1_Witness ==
    \E c \in Calls :
        /\ op[c] = "ActivitiesList" /\ Built(c)
        /\ args[c].opts[1].limit = 50
        /\ req[c][1].query # Nil /\ req[c][1].query[1].limit = 50

\* C2 (as claimed): whenever building the request fails, the operation
\* returns that build error with no decoded value and client.Do is never
\* called for that call.
C2_BuildFailureReturned ==
    \A c \in Calls :
        berr[c] # Nil =>
            /\ nDo[c] = 0
            /\ pc[c] # "panicked"
            /\ pc[c] = "returned" => (ret[c].err = berr[c] /\ ret[c].value = Nil)

\* C3: in an operation that decodes, an error from client.Do is returned
\* with a nil decoded value, also when the decoder had filled the
\* destination; a non-nil decoded value comes only with a nil error.
C3_ErrorMeansNoValue ==
    \A c \in Calls :
        (pc[c] = "returned" /\ op[c] \in DecodingOps) =>
            /\ ret[c].value # Nil => ret[c].err = Nil
            /\ (doOut[c] # Nil /\ doOut[c][1].err # Nil) =>
                  (ret[c].value = Nil /\ ret[c].err = doOut[c][1].err)

C3_Witness ==
    \E c \in Calls :
        /\ pc[c] = "returned" /\ op[c] \in DecodingOps
        /\ doOut[c] # Nil
        /\ doOut[c][1].err # Nil /\ doOut[c][1].record # Nil
        /\ ret[c].value = Nil

\* C4: a call invokes client.Do at most once, whatever the outcome; a failed
\* attempt is not followed by another one.
C4_SingleAttempt == \A c \in Calls : nDo[c] <= 1

C4_Witness ==
    \E c \in Calls :
        /\ pc[c] = "returned" /\ nDo[c] = 1
        /\ ret[c].err # Nil /\ ret[c].err[1].kind = "status"

\* C5: DeleteMultiple builds one DELETE of /activities with no body, whose
\* query carries the ids in decimal, in the given order, separated by ","
\* with no separator before the first or after the last.
C5_DeleteMultipleJoin ==
    \A c \in Calls :
        (op[c] = "ActivitiesDeleteMultiple" /\ Built(c)) =>
            LET ids == args[c].ids[1]
                r == req[c][1] IN
              /\ nDo[c] = 1
              /\ r.method = "DELETE"
              /\ r.path = <<"/", "a", "c", "t", "i", "v", "i", "t", "i", "e", "s">>
              /\ r.body = Nil
              /\ r.query # Nil
              /\ r.query[1].type = "deleteMultiple"
              /\ LET text == r.query[1].ids IN
                   /\ ids = <<>> => text = <<>>
                   /\ ids # <<>> =>
                        LET fields == Split(text, ",") IN
                          /\ Len(fields) = Len(ids)
                          /\ \A i \in 1..Len(ids) :
                                IsDecimal(fields[i]) /\ ParseInt(fields[i]) = ids[i]
                   /\ ids = <<12, -7>> => text = <<"1", "2", ",", "-", "7">>

C5_Witness ==
    \E c \in Calls :
        /\ op[c] = "ActivitiesDeleteMultiple" /\ Built(c)
        /\ args[c].ids[1] = <<12, -7>>
        /\ req[c][1].query[1].ids = <<"1", "2", ",", "-", "7">>

\* C6: each operation other than the activities List and DeleteMultiple
\* builds the documented verb and path, the path of a per-entity operation
\* holding exactly the id it was given, and none attaches pagination
\* parameters.
C6_VerbAndPath ==
    \A c \in Calls :
        Built(c) =>
            LET r == req[c][1]
                activities == <<"/", "a", "c", "t", "i", "v", "i", "t", "i", "e", "s">>
                webhooks == <<"/", "w", "e", "b", "h", "o", "o", "k", "s">> IN
              /\ op[c] = "ActivitiesGetByID" =>
                    r.method = "GET" /\ IsEntityPath(r.path, activities, args[c].id[1])
              /\ op[c] = "ActivitiesUpdate" =>
                    r.method = "PUT" /\ IsEntityPath(r.path, activities, args[c].id[1])
              /\ op[c] = "ActivitiesDelete" =>
                    r.method = "DELETE" /\ IsEntityPath(r.path, activities, args[c].id[1])
              /\ op[c] = "WebhooksDelete" =>
                    r.method = "DELETE" /\ IsEntityPath(r.path, webhooks, args[c].id[1])
              /\ op[c] = "ActivitiesCreate" => r.method = "POST" /\ r.path = activities
              /\ op[c] = "WebhooksCreate" => r.method = "POST" /\ r.path = webhooks
              /\ op[c] = "ActivitiesSummary" =>
                    /\ r.method = "GET"
                    /\ r.path = activities \o <<"/", "s", "u", "m", "m", "a", "r", "y">>
              /\ op[c] = "WebhooksList" => r.method = "GET" /\ r.path = webhooks
              /\ op[c] \notin {"ActivitiesList", "ActivitiesDeleteMultiple"} =>
                    (r.query = Nil \/ r.query[1].type # "pagination")

C6_Witness ==
    \E c \in Calls :
        /\ op[c] = "WebhooksDelete" /\ Built(c)
        /\ args[c].id[1] = -7
        /\ req[c][1].path = <<"/", "w", "e", "b", "h", "o", "o", "k", "s", "/", "-", "7">>

\* C7: when the request was built and the server answers 200 with a
\* well-formed envelope, a decoding operation returns a nil error, a decoded
\* value whose data is the data of that envelope, and the metadata of that
\* response.
C7_SuccessDecoded ==
    \A c \in Calls :
        ( /\ pc[c] = "returned" /\ op[c] \in DecodingOps /\ Built(c)
          /\ wire[c] # Nil
          /\ wire[c][1].kind = "http" /\ wire[c][1].status = 200
          /\ wire[c][1].wellFormed ) =>
            /\ ret[c].err = Nil
            /\ ret[c].value # Nil
            /\ ret[c].value[1].data = wire[c][1].data
            /\ ret[c].resp # Nil
            /\ ret[c].resp[1].status = 200
            /\ ret[c].resp[1].conn = wire[c][1].conn

C7_Witness ==
    \E c \in Calls :
        /\ pc[c] = "returned" /\ op[c] = "ActivitiesGetByID"
        /\ wire[c] # Nil /\ wire[c][1].status = 200 /\ wire[c][1].wellFormed
        /\ ret[c].value # Nil /\ ret[c].value[1].data = <<"d", "1">>

\* what a call returned came from the reply to that very call
OwnResult(c) ==
    pc[c] = "returned" =>
        /\ ret[c].resp # Nil =>
              /\ ret[c].resp[1].conn = c
              /\ wire[c] # Nil /\ ret[c].resp[1].status = wire[c][1].status
        /\ ret[c].value # Nil =>
              /\ wire[c] # Nil
              /\ ret[c].value[1].data = wire[c][1].data
              /\ ret[c].value[1].data = <<"d">> \o Itoa(c)
        /\ (ret[c].err # Nil /\ ret[c].err[1].kind = "status") =>
              (wire[c] # Nil /\ ret[c].err[1].status = wire[c][1].status)
        /\ (ret[c].err # Nil /\ ret[c].err[1].kind = "transport") =>
              (wire[c] # Nil /\ wire[c][1].kind = "transport")

\* two calls of the same operation with the same arguments built the same
\* request, whatever else was going on
OwnRequest(c, d) ==
    (pc[c] # "idle" /\ pc[d] # "idle" /\ op[c] = op[d] /\ args[c] = args[d]) =>
        (req[c] = req[d] /\ berr[c] = berr[d])

\* C8: with calls interleaved on one client, the client configuration never
\* changes, each call's request depends on its own arguments only, and what
\* a call returns comes from its own reply, never from another call's.
C8_CallsIsolated ==
    /\ [][client' = client]_vars
    /\ [](\A c \in Calls : OwnResult(c) /\ \A d \in Calls : OwnRequest(c, d))

C8_Witness ==
    \E c, d \in Calls :
        /\ c # d
        /\ pc[c] = "returned" /\ pc[d] = "returned"
        /\ ret[c].value # Nil /\ ret[d].value # Nil
        /\ ret[c].value[1].data # ret[d].value[1].data

\* C9 (as claimed): Update sends its non-nil options as Create does, as the
\* request body and not as query parameters.
C9_UpdateSendsBody ==
    \A c \in Calls :
        (op[c] = "ActivitiesUpdate" /\ Built(c) /\ args[c].opt # Nil) =>
            /\ req[c][1].body = args[c].opt
            /\ req[c][1].query = Nil

\* C10: after a request was built and handed to client.Do, the operation
\* returns the response metadata and the error exactly as Do produced them,
\* the metadata also beside an error; and when the server answered, a nil
\* response with a nil error is never returned.
C10_PassThrough ==
    \A c \in Calls :
        (pc[c] = "returned" /\ Built(c)) =>
            /\ doOut[c] # Nil
            /\ ret[c].resp = doOut[c][1].resp
            /\ ret[c].err = doOut[c][1].err
            /\ (wire[c] # Nil /\ wire[c][1].kind = "http") =>
                  ~(ret[c].resp = Nil /\ ret[c].err = Nil)

C10_Witness ==
    \E c \in Calls :
        /\ pc[c] = "returned" /\ Built(c)
        /\ op[c] = "ActivitiesDelete"
        /\ ret[c].err # Nil /\ ret[c].err[1].kind = "status"
        /\ ret[c].resp # Nil /\ ret[c].resp[1].status = 404

====
